---- MODULE Spec2Model ----
(***************************************************************************)
(* KYC back end: the selfie-video liveness scorer (kyc/views.py,           *)
(* KYCViewSet.process_video) and the enrollment request handler            *)
(* (KYCViewSet.create) with the AWS helper it calls (utils/aws_helper.py). *)
(*                                                                         *)
(* Five specifications share the module:                                   *)
(*   Spec       concurrent create() invocations on a few workers           *)
(*   SpecSeq    create() invocations one at a time                         *)
(*   SpecVideo  one run of process_video, frame by frame                   *)
(*   SpecBest   one run of AWSRekognition.get_best_frame, frame by frame   *)
(*   SpecLive   one call of AWSRekognition.process_liveness_frames         *)
(***************************************************************************)
EXTENDS Integers, Sequences, FiniteSets, TLC

VARIABLES
  \* ---- create(): one record of locals per worker, and what they share
  inv,                \* [worker -> locals of its current/last invocation]
  temp_video,         \* content of the file at video_path = "temp_video.webm"
  collection_exists,  \* Rekognition collection 'unique_faces' exists
  face_collection,    \* faces indexed in the collection
  bucket,             \* objects of the S3 bucket
  kyc_table,          \* rows of the KYC model
  user_verified,      \* persisted User.is_verified
  owner_unique,       \* whether the KYC model constrains user to be unique
  now,                \* last value time.time() returned
  nreq,               \* requests received so far
  faults,             \* backend calls that failed so far
  \* ---- process_video(): one run of the frame loop
  vpc,                \* "start", "loop", "returned", "raised"
  stream,             \* frames cap.read() has yielded so far
  scorer,             \* BLINK_COUNT, eye_open_frame, glare_detected
  result,             \* the returned triple
  \* ---- get_best_frame(): one run of the loop over the frames
  bpc,                \* "start", "loop", "returned"
  bframes,            \* the frames argument
  bi,                 \* index of the next frame of the for loop
  best,               \* best_quality, best_frame
  braised,            \* detect_faces raised and the except clause ran
  bresult,            \* the returned value
  \* ---- process_liveness_frames(): one call
  lpc,                \* "start", "loop", "best", "upload", "return", "returned"
  lframes,            \* the frames argument
  li,                 \* index of the next frame of the for loop
  processed_frames,   \* the list of the same name
  lcalls,             \* backend calls issued so far, in order
  confidence,         \* result.get('Confidence', 0), once the result is there
  is_live,            \* the local of the same name
  best_frame,         \* what get_best_frame returned
  selfie_url,         \* the local of the same name
  outcome             \* the returned dictionary

evars == <<inv, temp_video, collection_exists, face_collection, bucket, kyc_table,
           user_verified, owner_unique, now, nreq, faults>>
bvars == <<bpc, bframes, bi, best, braised, bresult>>
lvars == <<lpc, lframes, li, processed_frames, lcalls, confidence, is_live,
           best_frame, selfie_url, outcome>>
vvars == <<vpc, stream, scorer, result, bvars, lvars>>
vars == <<evars, vvars>>

\* ---------------------------------------------------------------- bounds
NumWorkers == 2
MaxRequests == 2
MaxFaults == 1
MaxTime == 1
MaxFrames == 2
MaxDet == 2
MaxBestFrames == 3
MaxLiveFrames == 2

\* ------------------------------------------------------- program constants
\* EAR_THRESHOLD = 0.3, eye-aspect ratios are carried in tenths
EAR_THRESHOLD == 3
\* is_live = BLINK_COUNT >= 1
MIN_BLINKS == 1
\* detect_glare: mean_brightness > 220
GLARE_THRESHOLD == 220
\* FaceMesh(...) is built without max_num_faces, whose default is 1
MAX_NUM_FACES == 1

\* Python's None, and an optional value as a sequence of length <= 1
None == <<>>
Some(x) == <<x>>

\* ------------------------------------------------------------------ frames
\* A decoded frame, by what the detectors answer on it:
\*   det     number of detections of mp FaceDetection
\*   mesh    multi_face_landmarks of mp FaceMesh, each face by the two
\*           values calculate_ear returns for it (tenths)
\*   bright  np.mean of the grayscale frame
\*   aws     number of FaceDetails Rekognition returns for the encoded frame
\*   person  whose face Rekognition matches the (largest) face to
Persons == {"a", "b"}
EarValues == {2, 3, 4}
BrightValues == {220, 221}
Ears == [left_ear : EarValues, right_ear : EarValues]
Meshes == UNION {[1..n -> Ears] : n \in 0..MAX_NUM_FACES}
FrameSet ==
  [det : 0..MaxDet, mesh : Meshes, bright : BrightValues, aws : {1}, person : {"a"}]

\* ------------------------------------------------- process_video, per frame
\* Scorer state: BLINK_COUNT, eye_open_frame, glare_detected (views.py 174-177)
ScorerInit == [BLINK_COUNT |-> 0, eye_open_frame |-> None, glare_detected |-> FALSE]

\* views.py 210-213: capture the eye-open frame
CaptureEyeOpen(st, frame, ear) ==
  IF (ear.left_ear > EAR_THRESHOLD \/ ear.right_ear > EAR_THRESHOLD)
       /\ st.eye_open_frame = None
  THEN [st EXCEPT !.eye_open_frame = Some(frame)]
  ELSE st

\* views.py 215-218: a blink when both ratios are below the threshold
IsBlink(ear) == ear.left_ear < EAR_THRESHOLD /\ ear.right_ear < EAR_THRESHOLD

\* views.py 196-218: the loop over multi_face_landmarks, from face i on;
\* a blink increments the counter and breaks out of this loop only
RECURSIVE LandmarksLoop(_, _, _)
LandmarksLoop(st, frame, i) ==
  IF i > Len(frame.mesh) THEN st
  ELSE LET ear == frame.mesh[i]
           s1 == CaptureEyeOpen(st, frame, ear)
       IN IF IsBlink(ear)
          THEN [s1 EXCEPT !.BLINK_COUNT = @ + 1]
          ELSE LandmarksLoop(s1, frame, i + 1)

\* Mutant of DetectionsLoop: the face mesh is consulted once more than there
\* are detections, so also on a frame without a detected face
DetectionsLoopNoGuard(st, frame, k) ==
  LET RECURSIVE Go(_, _)
      Go(s, j) == IF j > frame.det + 1 THEN s ELSE Go(LandmarksLoop(s, frame, 1), j + 1)
  IN Go(st, k)

\* views.py 190-195: once per detection, the face mesh of the same frame
RECURSIVE DetectionsLoop(_, _, _)
DetectionsLoop(st, frame, k) ==
  IF k > frame.det THEN st
  ELSE DetectionsLoop(LandmarksLoop(st, frame, 1), frame, k + 1)

\* views.py 254-263
detect_glare(frame) == frame.bright > GLARE_THRESHOLD

\* Mutant of GlareStep: the flag is assigned from the current frame alone
GlareStepOverwrite(st, frame) == [st EXCEPT !.glare_detected = detect_glare(frame)]

\* views.py 220-222
GlareStep(st, frame) ==
  IF detect_glare(frame) THEN [st EXCEPT !.glare_detected = TRUE] ELSE st

\* views.py 184-222: the body of the while loop for one frame
ScoreFrame(st, frame) == GlareStep(DetectionsLoop(st, frame, 1), frame)

\* views.py 226-234: the returned triple; the image is the encoded frame
Encode(frame) == [fmt |-> "jpg", pixels |-> frame]
IsLive(st) == st.BLINK_COUNT >= MIN_BLINKS
VideoResult(st) ==
  [is_live |-> IsLive(st),
   eye_open_image |->
     IF st.eye_open_frame # None THEN Some(Encode(st.eye_open_frame[1])) ELSE None,
   glare_detected |-> st.glare_detected]

\* views.py 179-222: the whole loop over the frames cap.read() yields
RECURSIVE ScoreFrames(_, _, _)
ScoreFrames(st, frames, i) ==
  IF i > Len(frames) THEN st
  ELSE ScoreFrames(ScoreFrame(st, frames[i]), frames, i + 1)

\* views.py 156-234 on an opened capture
process_video(frames) == VideoResult(ScoreFrames(ScorerInit, frames, 1))

NoResult == [is_live |-> FALSE, eye_open_image |-> None, glare_detected |-> FALSE]

\* ------------------------------------------- SpecVideo: the loop, stepwise
VInit ==
  /\ vpc = "start"
  /\ stream = <<>>
  /\ scorer = ScorerInit
  /\ result = NoResult

\* views.py 168-177: the capture opens and the running state is set up
CapOpen ==
  /\ vpc = "start"
  /\ vpc' = "loop"
  /\ scorer' = ScorerInit
  /\ UNCHANGED <<stream, result, evars, bvars, lvars>>

\* views.py 171-172: cap.isOpened() is false, ValueError is raised
CapOpenFails ==
  /\ vpc = "start"
  /\ vpc' = "raised"
  /\ UNCHANGED <<stream, scorer, result, evars, bvars, lvars>>

\* views.py 179-222: cap.read() yields a frame and the loop body runs on it
ReadFrame ==
  /\ vpc = "loop"
  /\ Len(stream) < MaxFrames
  /\ \E frame \in FrameSet :
       /\ stream' = Append(stream, frame)
       /\ scorer' = ScoreFrame(scorer, frame)
  /\ UNCHANGED <<vpc, result, evars, bvars, lvars>>

\* views.py 180-182, 224-234: ret is false, the loop breaks, the triple returns
EndOfStream ==
  /\ vpc = "loop"
  /\ vpc' = "returned"
  /\ result' = VideoResult(scorer)
  /\ UNCHANGED <<stream, scorer, evars, bvars, lvars>>

VNext == CapOpen \/ CapOpenFails \/ ReadFrame \/ EndOfStream

\* --------------------------------------------------------- get_best_frame
\* A frame handed to get_best_frame, by what it is and what detect_faces
\* (Attributes=['QUALITY']) answers on it:
\*   form        raw bytes, or a 'data:image...' base64 string
\*   faces       number of FaceDetails
\*   Brightness, Sharpness   Quality of FaceDetails[0]
\* The bytes of the frame at position i are told apart by i.
QualityValues == {0, 1}
BestFrameSet ==
  [form : {"bytes", "data_url"}, faces : 0..1,
   Brightness : QualityValues, Sharpness : QualityValues]

\* aws_helper.py 218-222: the image bytes of the frame at position i
ImageBytes(frames, i) == [bytes |-> i]

\* aws_helper.py 231-232
Quality(frame) == frame.Brightness + frame.Sharpness

\* aws_helper.py 214-215
BestInitial == [best_quality |-> 0, best_frame |-> None]

\* aws_helper.py 230-236: the loop body after detect_faces answered
BestStep(st, frames, i) ==
  IF frames[i].faces > 0 /\ Quality(frames[i]) > st.best_quality
  THEN [best_quality |-> Quality(frames[i]), best_frame |-> Some(ImageBytes(frames, i))]
  ELSE st

\* aws_helper.py 211-238 when no call raises
RECURSIVE BestLoop(_, _, _)
BestLoop(st, frames, i) ==
  IF i > Len(frames) THEN st ELSE BestLoop(BestStep(st, frames, i), frames, i + 1)
get_best_frame(frames) == BestLoop(BestInitial, frames, 1).best_frame

\* get_best_frame is not running
BIdle ==
  /\ bpc = "start"
  /\ bframes = <<>>
  /\ bi = 1
  /\ best = BestInitial
  /\ braised = FALSE
  /\ bresult = None

\* get_best_frame is called with any sequence of frames
BInit ==
  /\ bpc = "start"
  /\ bframes \in UNION {[1..n -> BestFrameSet] : n \in 0..MaxBestFrames}
  /\ bi = 1
  /\ best = BestInitial
  /\ braised = FALSE
  /\ bresult = None

\* aws_helper.py 213-215
BestStart ==
  /\ bpc = "start"
  /\ bpc' = "loop"
  /\ best' = BestInitial
  /\ bi' = 1
  /\ UNCHANGED <<bframes, braised, bresult, evars, vpc, stream, scorer, result, lvars>>

\* aws_helper.py 217-236: one iteration, detect_faces answers
BestFrame ==
  /\ bpc = "loop"
  /\ bi <= Len(bframes)
  /\ best' = BestStep(best, bframes, bi)
  /\ bi' = bi + 1
  /\ UNCHANGED <<bpc, bframes, braised, bresult, evars, vpc, stream, scorer, result, lvars>>

\* aws_helper.py 225-228, 239-241: detect_faces raises, None is returned
BestFrameRaises ==
  /\ bpc = "loop"
  /\ bi <= Len(bframes)
  /\ bpc' = "returned"
  /\ braised' = TRUE
  /\ bresult' = None
  /\ UNCHANGED <<bframes, bi, best, evars, vpc, stream, scorer, result, lvars>>

\* aws_helper.py 238
BestReturn ==
  /\ bpc = "loop"
  /\ bi > Len(bframes)
  /\ bpc' = "returned"
  /\ bresult' = best.best_frame
  /\ UNCHANGED <<bframes, bi, best, braised, evars, vpc, stream, scorer, result, lvars>>

BNext == BestStart \/ BestFrame \/ BestFrameRaises \/ BestReturn

\* ------------------------------------------- process_liveness_frames: inputs
\* is_live = result.get('Confidence', 0) > 90
LIVE_CONFIDENCE == 90

\* A frame handed to process_liveness_frames:
\*   form   raw bytes, a 'data:image...' string, a bare base64 string, or a
\*          string that b64decode rejects
\*   faces, Brightness, Sharpness   what detect_faces answers on its bytes
LiveFrameSet ==
  [form : {"bytes", "data_url", "base64", "garbled"}, faces : 0..1,
   Brightness : QualityValues, Sharpness : QualityValues]

\* aws_helper.py 104-110: the image bytes of the frame at position i of the
\* argument; src remembers the position
LiveDecode(frames, i) ==
  [form |-> "bytes", src |-> i, faces |-> frames[i].faces,
   Brightness |-> frames[i].Brightness, Sharpness |-> frames[i].Sharpness]

\* aws_helper.py 104-108: b64decode raises on a string that is not base64
DecodeRaises(frame) == frame.form = "garbled"

\* The Confidence values get_face_liveness_session_results may carry; None
\* stands for a result without the key
ConfidenceValues == {None, Some(90), Some(91)}

\* aws_helper.py 128: result.get('Confidence', 0)
GetConfidence(c) == IF c = None THEN 0 ELSE c[1]

\* Mutant of LiveIsLive: a confidence of exactly 90 counts as live
LiveIsLiveAtLeast(c) == c >= LIVE_CONFIDENCE

\* aws_helper.py 128
LiveIsLive(c) == c > LIVE_CONFIDENCE

\* no dictionary returned yet
NoOutcome == [status |-> "none"]

\* aws_helper.py 141-147
SuccessOutcome(live, conf, url) ==
  [status |-> "success", isLive |-> live, confidence |-> conf,
   sessionId |-> "session", selfieUrl |-> url]

\* aws_helper.py 151-156
ErrorOutcome ==
  [status |-> "error", message |-> "str(e)", isLive |-> FALSE, confidence |-> 0]

\* process_liveness_frames is not running
LIdle ==
  /\ lpc = "start"
  /\ lframes = <<>>
  /\ li = 1
  /\ processed_frames = <<>>
  /\ lcalls = <<>>
  /\ confidence = None
  /\ is_live = FALSE
  /\ best_frame = None
  /\ selfie_url = None
  /\ outcome = NoOutcome

\* process_liveness_frames is called with any sequence of frames
LInit ==
  /\ lpc = "start"
  /\ lframes \in UNION {[1..n -> LiveFrameSet] : n \in 0..MaxLiveFrames}
  /\ li = 1
  /\ processed_frames = <<>>
  /\ lcalls = <<>>
  /\ confidence = None
  /\ is_live = FALSE
  /\ best_frame = None
  /\ selfie_url = None
  /\ outcome = NoOutcome

\* ------------------------------------------------------- create(): inputs
Workers == 1..NumWorkers
Users == {"u1", "u2"}

\* The file at video_path: absent, zero bytes long, or holding a video
NoFile == "NoFile"
Empty == "Empty"
\* request.FILES.get("video") is None
NoVideo == "NoVideo"

OpenFrame(who) ==
  [det |-> 1, mesh |-> <<[left_ear |-> 4, right_ear |-> 4]>>, bright |-> 100,
   aws |-> 1, person |-> who]
ShutFrame(who) ==
  [det |-> 1, mesh |-> <<[left_ear |-> 2, right_ear |-> 2]>>, bright |-> 100,
   aws |-> 1, person |-> who]

\* The videos a client may post: whether cv2.VideoCapture opens the
\* container, and the frames it decodes
VideoNames ==
  {"liveA", "liveB", "corrupt", "noframes", "glare", "noblink", "shut", "crowd"}
Videos ==
  [v \in VideoNames |->
    CASE v = "liveA"    -> [readable |-> TRUE, frames |-> <<OpenFrame("a"), ShutFrame("a")>>]
      [] v = "liveB"    -> [readable |-> TRUE, frames |-> <<OpenFrame("b"), ShutFrame("b")>>]
      [] v = "corrupt"  -> [readable |-> FALSE, frames |-> <<>>]
      [] v = "noframes" -> [readable |-> TRUE, frames |-> <<>>]
      [] v = "glare"    -> [readable |-> TRUE,
                            frames |-> <<[OpenFrame("a") EXCEPT !.bright = 221],
                                         ShutFrame("a")>>]
      [] v = "noblink"  -> [readable |-> TRUE, frames |-> <<OpenFrame("a")>>]
      [] v = "shut"     -> [readable |-> TRUE, frames |-> <<ShutFrame("a")>>]
      [] v = "crowd"    -> [readable |-> TRUE,
                            frames |-> <<[OpenFrame("a") EXCEPT !.aws = 2],
                                         ShutFrame("a")>>]]

\* ------------------------------------------------------ create(): responses
Resp(code, msg) == [status |-> code, message |-> msg]
NoResponse == Resp(0, "")
NoVideoProvided == Resp(400, "No video provided")
ProcessingError == Resp(400, "Error processing video")
GlareDetected == Resp(400, "Glare detected in video, please try again.")
LivenessFailed == Resp(400, "Liveness check failed. Please try again.")
InvalidFace == Resp(400, "Invalid face image")
FaceExists == Resp(400, "Face already exists")
UploadError == Resp(500, "Error uploading image")
IndexError == Resp(500, "Error indexing face")
InvalidData == Resp(400, "Invalid data")
CreationFailed == Resp(500, "KYC creation failed")
Created == Resp(201, "created")

\* ------------------------------------------------------- create(): locals
Locals(u, v) ==
  [pc |-> "done", user |-> u, video_file |-> v, linked |-> FALSE, wrote |-> FALSE,
   scored |-> NoFile, is_live |-> FALSE, eye_open_image |-> None,
   glare_detected |-> FALSE, image_bytes |-> None, file_name |-> None,
   selfie_url |-> None, face_id |-> None, kyc |-> None, calls |-> <<>>,
   response |-> NoResponse]

\* A backend call as the client objects see it: api, argument, whether it
\* returned (ok) or raised
Call(api, arg, ok) == [api |-> api, arg |-> arg, ok |-> ok]
Called(loc, call) == [loc EXCEPT !.calls = Append(@, call)]

\* return Response(...)
Return(loc, resp) == [loc EXCEPT !.pc = "done", !.response = resp]

CanFail == faults < MaxFaults

EInit ==
  /\ inv = [p \in Workers |-> Locals("u1", NoVideo)]
  /\ temp_video = NoFile
  /\ collection_exists \in BOOLEAN
  /\ face_collection = {}
  /\ bucket = {}
  /\ kyc_table = <<>>
  /\ user_verified = [u \in Users |-> FALSE]
  /\ owner_unique \in BOOLEAN
  /\ now = 0
  /\ nreq = 0
  /\ faults = 0

Init == EInit /\ VInit /\ BIdle /\ LIdle

\* views.py 28-37: a request arrives at an idle worker
Receive(p) ==
  /\ inv[p].pc = "done"
  /\ nreq < MaxRequests
  /\ nreq' = nreq + 1
  /\ \E u \in Users, v \in VideoNames \cup {NoVideo} :
       inv' = [inv EXCEPT ![p] =
                 IF v = NoVideo
                 THEN Return(Locals(u, v), NoVideoProvided)
                 ELSE [Locals(u, v) EXCEPT !.pc = "open"]]
  /\ UNCHANGED <<temp_video, collection_exists, face_collection, bucket, kyc_table,
                 user_verified, owner_unique, now, faults, vvars>>

\* views.py 40-41: open(video_path, "wb") creates the file or truncates it
OpenTemp(p) ==
  /\ inv[p].pc = "open"
  /\ temp_video' = Empty
  /\ inv' = [inv EXCEPT ![p].pc = "write", ![p].linked = TRUE]
  /\ UNCHANGED <<collection_exists, face_collection, bucket, kyc_table,
                 user_verified, owner_unique, now, nreq, faults, vvars>>

\* views.py 42: f.write(video_file.read()), and the file is closed; the bytes
\* go to the file this handle opened, which another worker may have unlinked
WriteTemp(p) ==
  /\ inv[p].pc = "write"
  /\ temp_video' = IF inv[p].linked THEN inv[p].video_file ELSE temp_video
  /\ inv' = [inv EXCEPT ![p].pc = "process", ![p].linked = FALSE, ![p].wrote = TRUE]
  /\ UNCHANGED <<collection_exists, face_collection, bucket, kyc_table,
                 user_verified, owner_unique, now, nreq, faults, vvars>>

\* views.py 168-172: cv2.VideoCapture(video_path).isOpened()
CanOpen(content) ==
  /\ content \notin {NoFile, Empty}
  /\ Videos[content].readable

\* views.py 45-52: process_video on whatever video_path holds now
ProcessVideo(p) ==
  /\ inv[p].pc = "process"
  /\ inv' = [inv EXCEPT ![p] =
       IF CanOpen(temp_video)
       THEN LET r == process_video(Videos[temp_video].frames)
            IN [@ EXCEPT !.pc = "verdict", !.scored = temp_video,
                         !.is_live = r.is_live,
                         !.eye_open_image = r.eye_open_image,
                         !.glare_detected = r.glare_detected]
       ELSE Return(@, ProcessingError)]
  /\ UNCHANGED <<temp_video, collection_exists, face_collection, bucket, kyc_table,
                 user_verified, owner_unique, now, nreq, faults, vvars>>

\* os.remove(video_path) followed by return Response(resp): the removal
\* raises FileNotFoundError when the file is gone, which the handler of
\* views.py 149-154 turns into the creation-failed response; a removal
\* unlinks the file under every handle still writing to it
RemoveAndReturn(p, loc, resp) ==
  IF temp_video = NoFile
  THEN /\ inv' = [inv EXCEPT ![p] = Return(loc, CreationFailed)]
       /\ UNCHANGED temp_video
  ELSE /\ temp_video' = NoFile
       /\ inv' = [q \in Workers |->
                   IF q = p THEN Return(loc, resp)
                   ELSE [inv[q] EXCEPT !.linked = FALSE]]

\* views.py 76: ImageField accepts what cv2.imencode(".jpg") produced
SerializerValid(image) == image.fmt = "jpg"

\* views.py 54-81, 141-147: glare, liveness failure, serializer
HandleVerdict(p) ==
  /\ inv[p].pc = "verdict"
  /\ IF inv[p].glare_detected
     THEN RemoveAndReturn(p, inv[p], GlareDetected)
     ELSE IF ~inv[p].is_live \/ inv[p].eye_open_image = None
     THEN RemoveAndReturn(p, inv[p], LivenessFailed)
     ELSE IF ~SerializerValid(inv[p].eye_open_image[1])
     THEN RemoveAndReturn(p, inv[p], InvalidData)
     ELSE /\ inv' = [inv EXCEPT ![p].pc = "aws",
                                ![p].image_bytes = inv[p].eye_open_image]
          /\ UNCHANGED temp_video
  /\ UNCHANGED <<collection_exists, face_collection, bucket, kyc_table,
                 user_verified, owner_unique, now, nreq, faults, vvars>>

\* ---------------------------------------------------- create(): AWS helper
\* aws_helper.py 11-29: AWSRekognition() describes the collection; a missing
\* collection is created next, any other exception leaves create() through
\* the handler of views.py 149-154
EnsureCollection(p) ==
  /\ inv[p].pc = "aws"
  /\ \/ /\ collection_exists
        /\ inv' = [inv EXCEPT ![p] =
                     [Called(@, Call("describe_collection", "unique_faces", TRUE))
                        EXCEPT !.pc = "verify"]]
        /\ UNCHANGED faults
     \/ /\ ~collection_exists
        /\ inv' = [inv EXCEPT ![p] =
                     [Called(@, Call("describe_collection", "unique_faces", FALSE))
                        EXCEPT !.pc = "create_collection"]]
        /\ UNCHANGED faults
     \/ /\ CanFail
        /\ faults' = faults + 1
        /\ inv' = [inv EXCEPT ![p] =
                     Return(Called(@, Call("describe_collection", "unique_faces", FALSE)),
                            CreationFailed)]
  /\ UNCHANGED <<temp_video, collection_exists, face_collection, bucket, kyc_table,
                 user_verified, owner_unique, now, nreq, vvars>>

\* aws_helper.py 30-36: create_collection; it raises when the collection
\* exists by now (another worker created it) and the exception is re-raised
CreateCollection(p) ==
  /\ inv[p].pc = "create_collection"
  /\ \/ /\ ~collection_exists
        /\ collection_exists' = TRUE
        /\ inv' = [inv EXCEPT ![p] =
                     [Called(@, Call("create_collection", "unique_faces", TRUE))
                        EXCEPT !.pc = "verify"]]
        /\ UNCHANGED faults
     \/ /\ collection_exists
        /\ inv' = [inv EXCEPT ![p] =
                     Return(Called(@, Call("create_collection", "unique_faces", FALSE)),
                            CreationFailed)]
        /\ UNCHANGED <<collection_exists, faults>>
     \/ /\ CanFail
        /\ faults' = faults + 1
        /\ inv' = [inv EXCEPT ![p] =
                     Return(Called(@, Call("create_collection", "unique_faces", FALSE)),
                            CreationFailed)]
        /\ UNCHANGED collection_exists
  /\ UNCHANGED <<temp_video, face_collection, bucket, kyc_table,
                 user_verified, owner_unique, now, nreq, vvars>>

\* aws_helper.py 158-167: exactly one face detected; an exception gives False
verify_face(image, raised) ==
  IF raised THEN FALSE ELSE image.pixels.aws = 1

\* views.py 83-89
VerifyFace(p) ==
  /\ inv[p].pc = "verify"
  /\ \E raised \in BOOLEAN :
       /\ raised => CanFail
       /\ faults' = IF raised THEN faults + 1 ELSE faults
       /\ LET image == inv[p].image_bytes[1]
              loc == Called(inv[p], Call("detect_faces", image, ~raised))
          IN IF verify_face(image, raised)
             THEN /\ inv' = [inv EXCEPT ![p] = [loc EXCEPT !.pc = "duplicate"]]
                  /\ UNCHANGED temp_video
             ELSE RemoveAndReturn(p, loc, InvalidFace)
  /\ UNCHANGED <<collection_exists, face_collection, bucket, kyc_table,
                 user_verified, owner_unique, now, nreq, vvars>>

\* Rekognition search_faces_by_image at FaceMatchThreshold=95: the indexed
\* faces of the person the image shows
FaceMatches(image) == {f \in face_collection : f.person = image.pixels.person}

\* aws_helper.py 169-180: any match; an exception gives False
check_face_duplicate(image, raised) ==
  IF raised THEN FALSE ELSE FaceMatches(image) # {}

\* views.py 91-97
CheckDuplicate(p) ==
  /\ inv[p].pc = "duplicate"
  /\ \E raised \in BOOLEAN :
       /\ raised => CanFail
       /\ faults' = IF raised THEN faults + 1 ELSE faults
       /\ LET image == inv[p].image_bytes[1]
              loc == Called(inv[p], Call("search_faces_by_image", image, ~raised))
          IN IF check_face_duplicate(image, raised)
             THEN RemoveAndReturn(p, loc, FaceExists)
             ELSE /\ inv' = [inv EXCEPT ![p] = [loc EXCEPT !.pc = "upload"]]
                  /\ UNCHANGED temp_video
  /\ UNCHANGED <<collection_exists, face_collection, bucket, kyc_table,
                 user_verified, owner_unique, now, nreq, vvars>>

\* aws_helper.py 195-197: md5 over the bytes and the clock reading; the
\* digest is kept as the pair it is computed from
generate_image_hash(image, timestamp) == [bytes |-> image, timestamp |-> timestamp]

\* views.py 101
SelfieName(image_hash) == [prefix |-> "selfies/", hash |-> image_hash]

\* aws_helper.py 206
ObjectUrl(file_name) == [url |-> file_name]

\* s3 put_object: the object under Key is replaced
PutObject(objects, key, body) ==
  {o \in objects : o.Key # key} \cup {[Key |-> key, Body |-> body]}

\* views.py 99-109 with aws_helper.py 199-209
Upload(p) ==
  /\ inv[p].pc = "upload"
  /\ \E t \in now..MaxTime, raised \in BOOLEAN :
       /\ raised => CanFail
       /\ faults' = IF raised THEN faults + 1 ELSE faults
       /\ now' = t
       /\ LET image == inv[p].image_bytes[1]
              name == SelfieName(generate_image_hash(image, t))
              loc == [Called(inv[p], Call("put_object", name, ~raised))
                        EXCEPT !.file_name = Some(name)]
          IN IF raised
             THEN /\ RemoveAndReturn(p, loc, UploadError)
                  /\ UNCHANGED bucket
             ELSE /\ bucket' = PutObject(bucket, name, image)
                  /\ inv' = [inv EXCEPT ![p] =
                               [loc EXCEPT !.pc = "index",
                                           !.selfie_url = Some(ObjectUrl(name))]]
                  /\ UNCHANGED temp_video
  /\ UNCHANGED <<collection_exists, face_collection, kyc_table,
                 user_verified, owner_unique, nreq, vvars>>

\* Rekognition index_faces: a fresh FaceId for the face of the image
NewFaceId == Cardinality(face_collection) + 1

\* views.py 111-118 with aws_helper.py 182-193
IndexFace(p) ==
  /\ inv[p].pc = "index"
  /\ \E raised \in BOOLEAN :
       /\ raised => CanFail
       /\ faults' = IF raised THEN faults + 1 ELSE faults
       /\ LET image == inv[p].image_bytes[1]
              loc == Called(inv[p], Call("index_faces", image, ~raised))
          IN IF raised
             THEN /\ RemoveAndReturn(p, loc, IndexError)
                  /\ UNCHANGED face_collection
             ELSE /\ face_collection' = face_collection \cup
                        {[FaceId |-> NewFaceId, person |-> image.pixels.person]}
                  /\ inv' = [inv EXCEPT ![p] =
                               [loc EXCEPT !.pc = "record", !.face_id = Some(NewFaceId)]]
                  /\ UNCHANGED temp_video
  /\ UNCHANGED <<collection_exists, bucket, kyc_table,
                 user_verified, owner_unique, now, nreq, vvars>>

\* views.py 120-126: KYC.objects.create inserts a row; under a unique
\* constraint on user a second row for the user raises IntegrityError
CreateRecord(p) ==
  /\ inv[p].pc = "record"
  /\ IF owner_unique /\ \E i \in 1..Len(kyc_table) : kyc_table[i].user = inv[p].user
     THEN /\ inv' = [inv EXCEPT ![p] = Return(@, CreationFailed)]
          /\ UNCHANGED kyc_table
     ELSE /\ kyc_table' = Append(kyc_table,
                 [user |-> inv[p].user, selfie_url |-> inv[p].selfie_url[1],
                  face_id |-> inv[p].face_id[1], is_verified |-> TRUE])
          /\ inv' = [inv EXCEPT ![p].pc = "save", ![p].kyc = Some(Len(kyc_table) + 1)]
  /\ UNCHANGED <<temp_video, collection_exists, face_collection, bucket,
                 user_verified, owner_unique, now, nreq, faults, vvars>>

\* views.py 128-130: request.user.save(), which may raise
SaveUser(p) ==
  /\ inv[p].pc = "save"
  /\ \/ /\ user_verified' = [user_verified EXCEPT ![inv[p].user] = TRUE]
        /\ inv' = [inv EXCEPT ![p].pc = "cleanup"]
        /\ UNCHANGED faults
     \/ /\ CanFail
        /\ faults' = faults + 1
        /\ inv' = [inv EXCEPT ![p] = Return(@, CreationFailed)]
        /\ UNCHANGED user_verified
  /\ UNCHANGED <<temp_video, collection_exists, face_collection, bucket, kyc_table,
                 owner_unique, now, nreq, vvars>>

\* views.py 132-139: remove the video, cleanup_image (which only logs), 201
Cleanup(p) ==
  /\ inv[p].pc = "cleanup"
  /\ RemoveAndReturn(p, inv[p], Created)
  /\ UNCHANGED <<collection_exists, face_collection, bucket, kyc_table,
                 user_verified, owner_unique, now, nreq, faults, vvars>>

\* Every step of create() after the request was received
Step(p) ==
  \/ OpenTemp(p)
  \/ WriteTemp(p)
  \/ ProcessVideo(p)
  \/ HandleVerdict(p)
  \/ EnsureCollection(p)
  \/ CreateCollection(p)
  \/ VerifyFace(p)
  \/ CheckDuplicate(p)
  \/ Upload(p)
  \/ IndexFace(p)
  \/ CreateRecord(p)
  \/ SaveUser(p)
  \/ Cleanup(p)

\* Workers serve requests concurrently
Next == \E p \in Workers : Receive(p) \/ Step(p)

\* One request at a time: the next one arrives when every worker is idle
AllIdle == \A q \in Workers : inv[q].pc = "done"
SeqNext == \E p \in Workers : (AllIdle /\ Receive(p)) \/ Step(p)

Spec == Init /\ [][Next]_vars

SpecSeq == Init /\ [][SeqNext]_vars

\* process_video alone; create()'s state stays as constructed
VideoInit ==
  /\ VInit
  /\ BIdle
  /\ LIdle
  /\ inv = [p \in Workers |-> Locals("u1", NoVideo)]
  /\ temp_video = NoFile
  /\ collection_exists = TRUE
  /\ face_collection = {}
  /\ bucket = {}
  /\ kyc_table = <<>>
  /\ user_verified = [u \in Users |-> FALSE]
  /\ owner_unique = FALSE
  /\ now = 0
  /\ nreq = 0
  /\ faults = 0

SpecVideo == VideoInit /\ [][VNext]_vars

\* get_best_frame alone
EIdle ==
  /\ inv = [p \in Workers |-> Locals("u1", NoVideo)]
  /\ temp_video = NoFile
  /\ collection_exists = TRUE
  /\ face_collection = {}
  /\ bucket = {}
  /\ kyc_table = <<>>
  /\ user_verified = [u \in Users |-> FALSE]
  /\ owner_unique = FALSE
  /\ now = 0
  /\ nreq = 0
  /\ faults = 0

BestInit == EIdle /\ VInit /\ BInit /\ LIdle

SpecBest == BestInit /\ [][BNext]_vars

\* --------------------------------------------------- process_liveness_frames
\* what process_liveness_frames leaves alone
lrest == <<inv, temp_video, collection_exists, face_collection, kyc_table,
           user_verified, owner_unique, nreq, faults, vpc, stream, scorer, result,
           bvars>>

\* aws_helper.py 134
LivenessName(image_hash) == [prefix |-> "liveness/", hash |-> image_hash]

\* aws_helper.py 149-156: the outer except clause
LiveFails ==
  /\ lpc' = "returned"
  /\ outcome' = ErrorOutcome

\* aws_helper.py 100-101
LiveStart ==
  /\ lpc = "start"
  /\ lpc' = "loop"
  /\ processed_frames' = <<>>
  /\ li' = 1
  /\ UNCHANGED <<lframes, lcalls, confidence, is_live, best_frame, selfie_url,
                 outcome, bucket, now, lrest>>

\* aws_helper.py 102-120: one iteration; update_face_liveness_session answers
\* or raises, and only a frame it accepted is appended
LiveUpdateFrame ==
  /\ lpc = "loop"
  /\ li <= Len(lframes)
  /\ ~DecodeRaises(lframes[li])
  /\ \E ok \in BOOLEAN :
       /\ lcalls' = Append(lcalls, Call("update_face_liveness_session", li, ok))
       /\ processed_frames' = IF ok THEN Append(processed_frames, LiveDecode(lframes, li))
                                    ELSE processed_frames
  /\ li' = li + 1
  /\ UNCHANGED <<lpc, lframes, confidence, is_live, best_frame, selfie_url,
                 outcome, bucket, now, lrest>>

\* aws_helper.py 104-108, 149-156: b64decode raises, caught by the outer except
LiveDecodeRaises ==
  /\ lpc = "loop"
  /\ li <= Len(lframes)
  /\ DecodeRaises(lframes[li])
  /\ LiveFails
  /\ UNCHANGED <<lframes, li, processed_frames, lcalls, confidence, is_live,
                 best_frame, selfie_url, bucket, now, lrest>>

\* aws_helper.py 122-131: the session result, is_live, selfie_url = None
LiveResults ==
  /\ lpc = "loop"
  /\ li > Len(lframes)
  /\ \E c \in ConfidenceValues :
       /\ lcalls' = Append(lcalls, Call("get_face_liveness_session_results", "session", TRUE))
       /\ confidence' = Some(GetConfidence(c))
       /\ is_live' = LiveIsLive(GetConfidence(c))
       /\ lpc' = IF LiveIsLive(GetConfidence(c)) THEN "best" ELSE "return"
  /\ selfie_url' = None
  /\ UNCHANGED <<lframes, li, processed_frames, best_frame, outcome, bucket, now, lrest>>

\* aws_helper.py 123-125, 149-156: get_face_liveness_session_results raises
LiveResultsRaises ==
  /\ lpc = "loop"
  /\ li > Len(lframes)
  /\ lcalls' = Append(lcalls, Call("get_face_liveness_session_results", "session", FALSE))
  /\ LiveFails
  /\ UNCHANGED <<lframes, li, processed_frames, confidence, is_live, best_frame,
                 selfie_url, bucket, now, lrest>>

\* aws_helper.py 132-136: get_best_frame(processed_frames), which answers
\* None when one of its detect_faces calls raises
LiveBest ==
  /\ lpc = "best"
  /\ \E b \in {get_best_frame(processed_frames)} \cup
              (IF processed_frames # <<>> THEN {None} ELSE {}) :
       /\ best_frame' = b
       /\ lpc' = IF b # None THEN "upload" ELSE "return"
  /\ UNCHANGED <<lframes, li, processed_frames, lcalls, confidence, is_live,
                 selfie_url, outcome, bucket, now, lrest>>

\* aws_helper.py 136-139 with 195-209: hash, name, upload; upload_to_s3
\* answers None when put_object raises
LiveUpload ==
  /\ lpc = "upload"
  /\ \E t \in now..MaxTime, raised \in BOOLEAN :
       LET image == processed_frames[best_frame[1].bytes]
           name == LivenessName(generate_image_hash(image, t))
       IN /\ now' = t
          /\ lcalls' = Append(lcalls, Call("put_object", name, ~raised))
          /\ bucket' = IF raised THEN bucket ELSE PutObject(bucket, name, image)
          /\ selfie_url' = IF raised THEN None ELSE Some(ObjectUrl(name))
  /\ lpc' = "return"
  /\ UNCHANGED <<lframes, li, processed_frames, confidence, is_live, best_frame,
                 outcome, lrest>>

\* aws_helper.py 141-147
LiveReturn ==
  /\ lpc = "return"
  /\ lpc' = "returned"
  /\ outcome' = SuccessOutcome(is_live, confidence[1], selfie_url)
  /\ UNCHANGED <<lframes, li, processed_frames, lcalls, confidence, is_live,
                 best_frame, selfie_url, bucket, now, lrest>>

LNext ==
  \/ LiveStart \/ LiveUpdateFrame \/ LiveDecodeRaises \/ LiveResults
  \/ LiveResultsRaises \/ LiveBest \/ LiveUpload \/ LiveReturn

\* process_liveness_frames alone
LiveInit == EIdle /\ VInit /\ BIdle /\ LInit

SpecLive == LiveInit /\ [][LNext]_vars

\* ------------------------------------------------------------ properties
\* What one invocation's call log (the mocks' call lists) holds
CallsOf(loc, api) == {i \in DOMAIN loc.calls : loc.calls[i].api = api}
UploadSucceeded(loc) == \E i \in CallsOf(loc, "put_object") : loc.calls[i].ok
UploadFailed(loc) == \E i \in CallsOf(loc, "put_object") : ~loc.calls[i].ok
IndexingFailed(loc) == \E i \in CallsOf(loc, "index_faces") : ~loc.calls[i].ok
Returned(loc) == loc.pc = "done" /\ loc.response # NoResponse
IsErrorResponse(resp) == resp.status >= 400

\* The invocation went through record materialization (views.py 121)
Materialized(loc) == loc.face_id # None /\ loc.pc # "record"
RowsOf(u) == {i \in DOMAIN kyc_table : kyc_table[i].user = u}
LatestFor(p) ==
  /\ Materialized(inv[p])
  /\ \A q \in Workers \ {p} : ~(Materialized(inv[q]) /\ inv[q].user = inv[p].user)

\* C1: once an owner's latest enrollment went through record materialization
\* (no backend call having failed), exactly one Identity Record exists for the
\* owner and it carries the image URL and FaceId of that enrollment (a second
\* one overwrites, never adds).
C1_SingleRecordLatest ==
  \A p \in Workers :
    (faults = 0 /\ LatestFor(p)) =>
      \E i \in DOMAIN kyc_table :
        /\ RowsOf(inv[p].user) = {i}
        /\ kyc_table[i].selfie_url = inv[p].selfie_url[1]
        /\ kyc_table[i].face_id = inv[p].face_id[1]

\* A face of the person on the image was indexed by a finished, successful
\* enrollment of another owner
EnrolledByOther(p) ==
  \E i \in DOMAIN kyc_table, f \in FaceMatches(inv[p].image_bytes[1]) :
    /\ kyc_table[i].user # inv[p].user
    /\ kyc_table[i].face_id = f.FaceId
    /\ \E q \in Workers \ {p} :
         inv[q].kyc = Some(i) /\ inv[q].pc = "done" /\ inv[q].response = Created

\* C2: when the face was enrolled by another owner's completed enrollment,
\* the duplicate check of a later enrollment ends it with the duplicate-face
\* error, with no upload, no indexing and no Identity Record.
C2_DuplicateRejected ==
  [][\A p \in Workers :
       (inv[p].pc = "duplicate" /\ inv'[p].pc # "duplicate" /\ EnrolledByOther(p)) =>
         /\ inv'[p].pc = "done"
         /\ inv'[p].response = FaceExists
         /\ inv'[p].kyc = None
         /\ CallsOf(inv'[p], "put_object") = {}
         /\ CallsOf(inv'[p], "index_faces") = {}]_vars

\* C3: an enrollment whose upload succeeded and whose indexing failed has
\* issued, by the time it returns, exactly one delete call for the uploaded key.
C3_CompensatingDelete ==
  \A p \in Workers :
    (Returned(inv[p]) /\ UploadSucceeded(inv[p]) /\ IndexingFailed(inv[p])) =>
      Cardinality({i \in CallsOf(inv[p], "delete_object") :
                     inv[p].calls[i].arg = inv[p].file_name[1]}) = 1

\* C4: when an invocation that wrote the temporary video returns, on any exit
\* path, the file at video_path does not exist.
C4_TempRemovedOnReturn ==
  [][\A p \in Workers :
       (inv[p].pc # "done" /\ inv'[p].pc = "done" /\ inv[p].wrote) =>
         temp_video' = NoFile]_vars

\* C5: an enrollment that returned an error response has created no Identity
\* Record.
C5_NoRecordOnError ==
  \A p \in Workers :
    (Returned(inv[p]) /\ IsErrorResponse(inv[p].response)) => inv[p].kyc = None

\* The single-face check got an answer other than exactly one face
WrongFaceCount(loc) ==
  \E i \in CallsOf(loc, "detect_faces") :
    loc.calls[i].ok /\ loc.calls[i].arg.pixels.aws # 1
StorageApis == {"put_object", "delete_object"}
RegistryApis ==
  {"search_faces_by_image", "index_faces", "describe_collection", "create_collection"}

\* C6: when the single-face check finds zero or several faces, the enrollment
\* returns the invalid-face error having issued no storage call and no
\* registry call, and creates no Identity Record.
C6_InvalidFaceNoSideEffects ==
  \A p \in Workers :
    (Returned(inv[p]) /\ WrongFaceCount(inv[p])) =>
      /\ inv[p].response = InvalidFace
      /\ \A i \in DOMAIN inv[p].calls :
           inv[p].calls[i].api \notin StorageApis \cup RegistryApis
      /\ inv[p].kyc = None

\* C7: an enrollment whose upload failed returns the storage-write error and
\* has called no index operation; every index call comes after a successful
\* upload of the same image in the same attempt.
C7_NoIndexWithoutUpload ==
  \A p \in Workers :
    /\ (Returned(inv[p]) /\ UploadFailed(inv[p])) =>
         /\ inv[p].response = UploadError
         /\ CallsOf(inv[p], "index_faces") = {}
    /\ \A i \in CallsOf(inv[p], "index_faces") :
         \E j \in CallsOf(inv[p], "put_object") :
           /\ j < i
           /\ inv[p].calls[j].ok
           /\ inv[p].calls[j].arg.hash.bytes = inv[p].calls[i].arg

\* C8: the video an invocation scores is the one it received, and while an
\* invocation is about to read its temporary video no step of another
\* invocation changes or removes that file.
C8_InvocationsIsolated ==
  [][\A p \in Workers :
       /\ (inv[p].pc = "process" /\ inv'[p].pc = "verdict") =>
            inv'[p].scored = inv[p].video_file
       /\ (inv[p].pc = "process" /\ inv'[p] = inv[p]) =>
            temp_video' = temp_video]_vars

\* C9: a video that cannot be opened or decodes to zero frames makes
\* process_video fail instead of returning a verdict, and is never answered
\* with the liveness-failed response.
C9_UnreadableIsHardError ==
  \A p \in Workers :
    (inv[p].pc = "verdict" \/ inv[p].response = LivenessFailed) =>
      /\ CanOpen(inv[p].scored)
      /\ Videos[inv[p].scored].frames # <<>>

\* C10: the verdict process_video returns has is_live true exactly when the
\* blink count reached the minimum and an open-eye frame was stored.
C10_LiveIffBlinkAndOpenEye ==
  vpc = "returned" =>
    (result.is_live <=>
       (scorer.BLINK_COUNT >= MIN_BLINKS /\ scorer.eye_open_frame # None))

\* ---------------------------------------------------------------- C11
NoFaceDetected(frames) == \A i \in DOMAIN frames : frames[i].det = 0

\* C11: for a video none of whose frames has a detected face, process_video
\* returns is_live = False and no eye-open image, and does not raise.
C11_NoFaceNotLive ==
  NoFaceDetected(stream) =>
    /\ vpc \in {"loop", "returned"} =>
         scorer.BLINK_COUNT = 0 /\ scorer.eye_open_frame = None
    /\ vpc = "returned" => ~result.is_live /\ result.eye_open_image = None
    /\ stream # <<>> => vpc # "raised"

\* A returned verdict on two face-less frames whose mesh would show a blink
\* and open eyes
C11_Witness ==
  /\ vpc = "returned"
  /\ Len(stream) = 2
  /\ NoFaceDetected(stream)
  /\ stream[1].mesh # <<>> /\ IsBlink(stream[1].mesh[1])
  /\ stream[2].mesh # <<>> /\ stream[2].mesh[1].left_ear > EAR_THRESHOLD
  /\ ~result.is_live

\* ---------------------------------------------------------------- C12
\* C12: an invocation whose verdict has glare_detected returns the glare
\* response, whatever is_live and the eye-open image are, having issued no
\* vision, registry or storage call; the liveness-failed response is returned
\* only without glare.
C12_GlareRejectsFirst ==
  \A p \in Workers :
    /\ (Returned(inv[p]) /\ inv[p].glare_detected) =>
         inv[p].response = GlareDetected /\ inv[p].calls = <<>>
    /\ inv[p].response = LivenessFailed => ~inv[p].glare_detected

\* ---------------------------------------------------------------- C13
SomeFrameTooBright(frames) ==
  \E i \in DOMAIN frames : frames[i].bright > GLARE_THRESHOLD

\* C13: while a video is scored the glare flag, once true, stays true; after
\* every frame, with or without a detected face, it is true exactly when some
\* frame read so far has mean brightness above the threshold, and the verdict
\* returns that value.
C13_GlareMonotonicComplete ==
  [][/\ (vpc = "loop" /\ scorer.glare_detected) => scorer'.glare_detected
     /\ vpc' \in {"loop", "returned"} =>
          (scorer'.glare_detected <=> SomeFrameTooBright(stream'))
     /\ vpc' = "returned" =>
          (result'.glare_detected <=> SomeFrameTooBright(stream'))]_vars

\* A verdict with glare from a first, face-less frame followed by a frame
\* that is not too bright
C13_Witness ==
  /\ vpc = "returned"
  /\ Len(stream) = 2
  /\ stream[1].det = 0 /\ stream[1].bright > GLARE_THRESHOLD
  /\ stream[2].bright <= GLARE_THRESHOLD
  /\ result.glare_detected

\* ---------------------------------------------------------------- C14
\* Both ratios of a face of the frame exceed the open threshold (the ratios
\* are computed for frames with a detected face only)
BothEyesOpen(frame) ==
  /\ frame.det > 0
  /\ \E i \in DOMAIN frame.mesh :
       frame.mesh[i].left_ear > EAR_THRESHOLD /\ frame.mesh[i].right_ear > EAR_THRESHOLD
FirstBothOpen(frames) ==
  LET hits == {i \in DOMAIN frames : BothEyesOpen(frames[i])}
  IN IF hits = {} THEN None
     ELSE Some(frames[CHOOSE i \in hits : \A j \in hits : i <= j])

\* C14: the stored eye-open frame is, at every point of the loop, the earliest
\* frame read so far in which both eye-aspect ratios exceed the threshold
\* (none if there is none), and the verdict returns that frame.
C14_FirstBothOpenFrame ==
  /\ vpc \in {"loop", "returned"} => scorer.eye_open_frame = FirstBothOpen(stream)
  /\ vpc = "returned" =>
       result.eye_open_image =
         (IF FirstBothOpen(stream) = None THEN None
          ELSE Some(Encode(FirstBothOpen(stream)[1])))

\* ---------------------------------------------------------------- C15
FramesWithFace(frames) == {i \in DOMAIN frames : frames[i].faces > 0}
EarliestBest(frames) ==
  LET F == FramesWithFace(frames)
      top == {i \in F : \A j \in F : Quality(frames[j]) <= Quality(frames[i])}
  IN IF F = {} THEN None
     ELSE Some(ImageBytes(frames, CHOOSE i \in top : \A j \in top : i <= j))

\* C15: when no detector call fails, get_best_frame returns the earliest
\* frame of maximal brightness + sharpness among the frames with a face, and
\* None exactly when no frame has a face, for every score including 0.
C15_EarliestMaximalFrame ==
  (bpc = "returned" /\ ~braised) => bresult = EarliestBest(bframes)

\* ---------------------------------------------------------------- C16
UsedKeys == {o.Key : o \in bucket}

\* C16: a successful upload never writes to a storage key that an earlier
\* upload already used, also when the image bytes are identical and both
\* hash computations read the same clock value.
C16_FreshStorageKey ==
  [][\A p \in Workers :
       (inv[p].pc = "upload" /\ inv'[p].pc = "index")
         => inv'[p].file_name[1] \notin UsedKeys]_vars

\* ---------------------------------------------------------------- C17
FailedCalls(loc, api) == {i \in CallsOf(loc, api) : ~loc.calls[i].ok}
OkCalls(loc, api) == {i \in CallsOf(loc, api) : loc.calls[i].ok}

\* C17: an enrollment whose face-detection call failed at the backend never
\* answers with the invalid-face outcome.
C17_BackendFailureNotInvalidFace ==
  \A p \in Workers :
    FailedCalls(inv[p], "detect_faces") # {} => inv[p].response # InvalidFace

\* ---------------------------------------------------------------- C18
\* C18: an enrollment whose registry search call failed does not go on to
\* upload, indexing or record creation, and what it returns is an error.
C18_SearchFailureFailsFast ==
  \A p \in Workers :
    FailedCalls(inv[p], "search_faces_by_image") # {} =>
      /\ CallsOf(inv[p], "put_object") = {}
      /\ CallsOf(inv[p], "index_faces") = {}
      /\ inv[p].kyc = None
      /\ Returned(inv[p]) => IsErrorResponse(inv[p].response)

\* ---------------------------------------------------------------- C19
PipelineApis == <<"detect_faces", "search_faces_by_image", "put_object", "index_faces">>

\* C19: within one enrollment each of single-face check, duplicate check,
\* upload and indexing is called at most once, each after the previous one
\* succeeded; the record exists only after a successful indexing, and the
\* owner-flag update is reached only after the record was created.
C19_StepsInOrderAfterSuccess ==
  \A p \in Workers :
    /\ \A k \in DOMAIN PipelineApis :
         /\ Cardinality(CallsOf(inv[p], PipelineApis[k])) <= 1
         /\ k > 1 =>
              \A i \in CallsOf(inv[p], PipelineApis[k]) :
                \E j \in OkCalls(inv[p], PipelineApis[k - 1]) : j < i
    /\ inv[p].kyc # None => OkCalls(inv[p], "index_faces") # {}
    /\ inv[p].pc \in {"save", "cleanup"} => inv[p].kyc # None
    /\ inv[p].response = Created => inv[p].kyc # None

\* ---------------------------------------------------------------- C20
FaceIdsOf(x) == {f \in face_collection : f.person = x}
RecordsOf(x) ==
  {i \in DOMAIN kyc_table : \E f \in FaceIdsOf(x) : kyc_table[i].face_id = f.FaceId}

\* C20: when two enrollments of one face run for two different owners and no
\* backend call fails, at most one FaceId of that face is in the registry and
\* at most one Identity Record refers to that face.
C20_OneRecordPerFace ==
  (faults = 0 /\ \A p, q \in Workers : p # q => inv[p].user # inv[q].user) =>
    \A x \in Persons :
      /\ Cardinality(FaceIdsOf(x)) <= 1
      /\ Cardinality(RecordsOf(x)) <= 1

\* ---------------------------------------------------------------- C21
BothEyesShut(frame) ==
  \E i \in DOMAIN frame.mesh :
    frame.mesh[i].left_ear < EAR_THRESHOLD /\ frame.mesh[i].right_ear < EAR_THRESHOLD

\* C21: scoring one frame leaves the blink counter unchanged or adds exactly
\* one to it, and adds one only when a face of the frame has both ratios
\* below the threshold, whatever the number of detections; the counter never
\* decreases.
C21_OneBlinkPerFrame ==
  [][(vpc = "loop" /\ Len(stream') = Len(stream) + 1) =>
       LET frame == stream'[Len(stream')]
           added == scorer'.BLINK_COUNT - scorer.BLINK_COUNT
       IN /\ added \in {0, 1}
          /\ added > 0 => (frame.det > 0 /\ BothEyesShut(frame))]_vars

\* ---------------------------------------------------------------- C22
LiveLog == [calls |-> lcalls]
UpdatedFrames == {lcalls[k].arg : k \in OkCalls(LiveLog, "update_face_liveness_session")}
LiveAndSelected ==
  /\ is_live
  /\ confidence # None
  /\ confidence[1] > LIVE_CONFIDENCE
  /\ best_frame # None

\* C22: process_liveness_frames uploads an object, and answers a non-null
\* selfieUrl, only when the confidence is above 90 and a best frame was
\* selected; the best frame is one of the frames whose session update
\* succeeded; and when the session result cannot be obtained the answer is
\* status 'error' with isLive false and nothing is uploaded.
C22_UploadOnlyLiveBest ==
  /\ (CallsOf(LiveLog, "put_object") # {} \/ bucket # {}) => LiveAndSelected
  /\ (lpc = "returned" /\ outcome.status = "success") =>
       /\ outcome.isLive <=> outcome.confidence > LIVE_CONFIDENCE
       /\ outcome.selfieUrl # None =>
            (LiveAndSelected /\ outcome.isLive /\ OkCalls(LiveLog, "put_object") # {})
  /\ best_frame # None =>
       processed_frames[best_frame[1].bytes].src \in UpdatedFrames
  /\ FailedCalls(LiveLog, "get_face_liveness_session_results") # {} =>
       /\ lpc = "returned"
       /\ outcome.status = "error"
       /\ ~outcome.isLive
       /\ CallsOf(LiveLog, "put_object") = {}
       /\ bucket = {}

\* A call with two frames, the first refused by the session update, that
\* returns a selfieUrl for the uploaded second frame
C22_Witness ==
  /\ lpc = "returned"
  /\ Len(lframes) = 2
  /\ FailedCalls(LiveLog, "update_face_liveness_session") # {}
  /\ lframes[1].faces > 0
  /\ outcome.status = "success"
  /\ outcome.selfieUrl # None
  /\ bucket # {}
  /\ processed_frames[best_frame[1].bytes].src = 2

====
